---- MODULE Spec2Model ----
(***************************************************************************)
(* A model of bionic's AI Platform task lifecycle (bionic/aip/task.py):    *)
(* the TaskConfig / Config / Task value objects, the translation of a Task *)
(* into a job request, staging, submission, and the polling loop of        *)
(* wait_for_results.  The object store (gcs_fs) and the job service        *)
(* (aip_client) are the environment: every call on them either fails or    *)
(* answers, and the answer of a describe call is any response the provider *)
(* can give.                                                               *)
(*                                                                         *)
(* Python values: an Optional[...] value is the empty tuple (None) or a    *)
(* one-element tuple holding the value; a dict is a function on its keys.  *)
(***************************************************************************)
EXTENDS Integers, Sequences, FiniteSets, TLC

VARIABLES
    config,     \* the Config shared by the tasks of one run
    task,       \* name -> the Task constructed under that name, or NoTask
    pc,         \* name -> position of the caller / of the running method
    spec,       \* name -> local `spec` of submit (None before line 120)
    response,   \* name -> local `response` of _get_state_and_error
    state,      \* name -> local `state` of wait_for_results
    error,      \* name -> local `error` of wait_for_results
    trace,      \* name -> calls made on gcs_fs / aip_client / time by the running call
    slept,      \* name -> time units slept by the running call
    outcome,    \* name -> how the last finished call ended
    calls,      \* name -> number of submit / wait_for_results calls started
    store,      \* the object store: uri -> content
    createLog,  \* the job service: create requests executed, in order
    persistent_cache,   \* deriver._bootstrap.persistent_cache: its two stores
    generator,  \* the generator get_entries returned, and the caller's position
    entries,    \* the CacheEntry values the caller has received, in order
    cacheTrace, \* calls made on the deriver and the inventories, in order
    ordered     \* sorted(entries) once the caller has sorted them, else None

taskVars == <<config, task, pc, spec, response, state, error, trace, slept, outcome,
              calls, store, createLog>>

cacheVars == <<persistent_cache, generator, entries, cacheTrace, ordered>>

vars == <<config, task, pc, spec, response, state, error, trace, slept, outcome, calls,
          store, createLog, persistent_cache, generator, entries, cacheTrace, ordered>>

----------------------------------------------------------------------------
(* Bounds of the model *)

MaxPolls == 3       \* describe calls one wait_for_results call may make
MaxCalls == 2       \* submit / wait_for_results calls per task

(* time.sleep(10) *)
SleepInterval == 10

----------------------------------------------------------------------------
(* Python values *)

None == <<>>
Some(x) == <<x>>
Optional(S) == {None} \cup {Some(x) : x \in S}

NoTask == [name |-> ""]

Names == {"a", "b"}
Functions == {"fn", "unpicklable_fn"}
Serializable(f) == f = "fn"

(* str(x) of an Optional[str]: str(None) is the text "None" *)
str(x) == IF x = None THEN "None" ELSE x[1]

----------------------------------------------------------------------------
(* The value objects *)

TaskConfig ==
    [machine : {"n1-standard-4"},
     worker_count : Optional({-1, 0, 2}),
     worker_machine : Optional({"n1-highmem-2"})]

Config ==
    [uuid : {"u1"},
     image_uri : {"gcr.io/img"},
     project_name : {"proj"},
     account : Optional({"sa@proj"}),
     network : Optional({"vpc"})]

Task(name, function, cfg, task_config) ==
    [name |-> name, function |-> function, config |-> cfg,
     task_config |-> task_config]

job_id(self) == self.config.uuid \o "_" \o self.name

(* Mutant: the staging path is keyed by the run only, not by the task *)
inputs_uri_NoName(self) ==
    "gs://" \o self.config.project_name \o "/bionic/" \o self.config.uuid
        \o "/inputs.cloudpickle"

inputs_uri(self) ==
    "gs://" \o self.config.project_name \o "/bionic/" \o self.config.uuid
        \o "/" \o self.name \o "-inputs.cloudpickle"

output_uri(self) ==
    "gs://" \o self.config.project_name \o "/bionic/" \o self.config.uuid
        \o "/" \o self.name \o "-output.cloudpickle"

----------------------------------------------------------------------------
(* Task._ai_platform_job_spec *)

(* Mutant: the entry point is pointed at the output location *)
BaseTrainingInput_OutputUri(self) ==
    [serviceAccount |-> self.config.account,
     masterType |-> self.task_config.machine,
     masterConfig |-> [imageUri |-> self.config.image_uri],
     args |-> <<"python", "-m", "bionic.aip.main", output_uri(self)>>,
     packageUris |-> <<>>,
     region |-> "us-west1",
     pythonModule |-> "",
     scaleTier |-> "CUSTOM"]

BaseTrainingInput(self) ==
    [serviceAccount |-> self.config.account,
     masterType |-> self.task_config.machine,
     masterConfig |-> [imageUri |-> self.config.image_uri],
     args |-> <<"python", "-m", "bionic.aip.main", inputs_uri(self)>>,
     packageUris |-> <<>>,
     region |-> "us-west1",
     pythonModule |-> "",
     scaleTier |-> "CUSTOM"]

(* Mutant: the network key is set whatever Config.network is *)
NetworkPart_Always(self) == [network |-> self.config.network]

NetworkPart(self) ==
    IF self.config.network # None
    THEN [network |-> self.config.network]
    ELSE <<>>

(* Mutant: the worker block is written for worker_count >= 0 *)
HasWorkers_NonNegative(self) ==
    /\ self.task_config.worker_count # None
    /\ self.task_config.worker_count[1] >= 0

HasWorkers(self) ==
    /\ self.task_config.worker_count # None
    /\ self.task_config.worker_count[1] > 0

WorkerPart(self) ==
    IF HasWorkers(self)
    THEN [workerCount |-> self.task_config.worker_count,
          workerType |-> self.task_config.worker_machine,
          workerConfig |-> [imageUri |-> self.config.image_uri]]
    ELSE <<>>

_ai_platform_job_spec(self) ==
    [jobId |-> job_id(self),
     labels |-> [job |-> self.config.uuid],
     trainingInput |->
        WorkerPart(self) @@ NetworkPart(self) @@ BaseTrainingInput(self)]

----------------------------------------------------------------------------
(* bionic.aip.state.State: the states the provider reports *)

State == {"QUEUED", "RUNNING", "SUCCEEDED", "FAILED", "CANCELLED"}

is_executing(s) == s \in {"QUEUED", "RUNNING"}

(* The responses of a jobs().get(...) request: the provider may give an *)
(* errorMessage for a job that failed or was cancelled                  *)
ErrorMessages == {"oom"}

Responses ==
    {[state |-> s] : s \in State}
        \cup {[state |-> s, errorMessage |-> m] :
                s \in {"FAILED", "CANCELLED"}, m \in ErrorMessages}

(* Exceptions *)
Exception(type, msg) == [type |-> type, msg |-> msg]

AipError(msg) == Exception("AipError", msg)

----------------------------------------------------------------------------
(* The object store *)

Absent == [kind |-> "absent"]
Partial == [kind |-> "partial"]
Corrupt == [kind |-> "corrupt"]
Pickled(obj) == [kind |-> "pickle", obj |-> obj]

Uris ==
    UNION {{inputs_uri(Task(n, "fn", c, CHOOSE tc \in TaskConfig : TRUE)),
            output_uri(Task(n, "fn", c, CHOOSE tc \in TaskConfig : TRUE))} :
           n \in Names, c \in Config}

OutputUris ==
    {output_uri(Task(n, "fn", c, CHOOSE tc \in TaskConfig : TRUE)) :
        n \in Names, c \in Config}

(* What the remote job may have left at an output location *)
OutputContents == {Absent, Corrupt, Pickled("result")}

----------------------------------------------------------------------------
(* Calls made by the running method, in order *)

(* A call on a collaborator: what was called, on what, and how it ended *)
Ok(value) == <<"ok", value>>
Raised(exc) == <<"raised", exc>>
Event(op, arg, res) == [op |-> op, arg |-> arg, res |-> res]

Ops(tr) == [i \in DOMAIN tr |-> tr[i].op]

Count(tr, op) == Cardinality({i \in DOMAIN tr : tr[i].op = op})

Log(n, op, arg, res) ==
    trace' = [trace EXCEPT ![n] = Append(@, Event(op, arg, res))]


(* The running method returns `value` / raises `exc` to the caller *)
Return(n, value) ==
    /\ outcome' = [outcome EXCEPT ![n] = [kind |-> "returned", value |-> value]]
    /\ pc' = [pc EXCEPT ![n] = "idle"]

Raise(n, exc) ==
    /\ outcome' = [outcome EXCEPT ![n] = [kind |-> "raised", exc |-> exc]]
    /\ pc' = [pc EXCEPT ![n] = "idle"]

(* A collaborator's call raises: nothing catches it, the method ends *)
Fail(n, op, arg, exc) == Log(n, op, arg, Raised(exc)) /\ Raise(n, exc)

Goto(n, label) == pc' = [pc EXCEPT ![n] = label]

NoOutcome == [kind |-> "running"]

----------------------------------------------------------------------------
Init ==
    /\ config \in Config
    /\ task = [n \in Names |-> NoTask]
    /\ pc = [n \in Names |-> "new"]
    /\ spec = [n \in Names |-> None]
    /\ response = [n \in Names |-> None]
    /\ state = [n \in Names |-> None]
    /\ error = [n \in Names |-> None]
    /\ trace = [n \in Names |-> <<>>]
    /\ slept = [n \in Names |-> 0]
    /\ outcome = [n \in Names |-> NoOutcome]
    /\ calls = [n \in Names |-> 0]
    /\ store = [u \in Uris |-> Absent]
    /\ createLog = <<>>
    /\ persistent_cache = [_local_store |-> None, _cloud_store |-> None]
    /\ generator = [pc |-> "new", stores |-> <<>>, s |-> 1, items |-> None, i |-> 0]
    /\ entries = <<>>
    /\ cacheTrace = <<>>
    /\ ordered = None

(* TaskConfig(...) and Task(...): attrs-generated constructors, no validators *)
Construct(n) ==
    /\ pc[n] = "new"
    /\ \E f \in Functions, tc \in TaskConfig :
         task' = [task EXCEPT ![n] = Task(n, f, config, tc)]
    /\ Goto(n, "idle")
    /\ UNCHANGED <<config, spec, response, state, error, trace, slept,
                   outcome, calls, store, createLog>>

(* The caller starts a call: fresh locals, nothing called yet *)
StartCall(n, label) ==
    /\ pc[n] = "idle"
    /\ calls[n] < MaxCalls
    /\ calls' = [calls EXCEPT ![n] = @ + 1]
    /\ Goto(n, label)
    /\ spec' = [spec EXCEPT ![n] = None]
    /\ response' = [response EXCEPT ![n] = None]
    /\ state' = [state EXCEPT ![n] = None]
    /\ error' = [error EXCEPT ![n] = None]
    /\ trace' = [trace EXCEPT ![n] = <<>>]
    /\ slept' = [slept EXCEPT ![n] = 0]
    /\ outcome' = [outcome EXCEPT ![n] = NoOutcome]
    /\ UNCHANGED <<config, task, store, createLog>>

----------------------------------------------------------------------------
(* Task.submit *)

CallSubmit(n) == StartCall(n, "stage_open")

(* _stage: gcs_fs.open(path, "wb") *)
StageOpen(n) ==
    /\ pc[n] = "stage_open"
    /\ \/ /\ Log(n, "open_wb", inputs_uri(task[n]), Ok(""))
          /\ Goto(n, "stage_dump")
          /\ UNCHANGED outcome
       \/ Fail(n, "open_wb", inputs_uri(task[n]), Exception("OSError", "open"))
    /\ UNCHANGED <<config, task, spec, response, state, error, slept, calls,
                   store, createLog>>

(* What a failed write may leave at the location: the old object, or the *)
(* bytes flushed when the `with` block closes the stream                 *)
AfterFailedWrite(old) == {old, Partial}

(* What cloudpickle.dump / the close can raise for a payload *)
DumpErrors(f) ==
    IF Serializable(f)
    THEN {Exception("OSError", "write")}
    ELSE {Exception("PicklingError", "dump"), Exception("OSError", "write")}

(* Mutant: the stream is opened for appending, a second staging adds to *)
(* the object already there                                             *)
StageDump_Append(n) ==
    /\ pc[n] = "stage_dump"
    /\ \/ /\ Serializable(task[n].function)
          /\ Log(n, "dump", inputs_uri(task[n]), Ok(""))
          /\ store' = [store EXCEPT ![inputs_uri(task[n])] =
                          IF @ = Absent THEN Pickled(task[n]) ELSE Corrupt]
          /\ Goto(n, "translate")
          /\ UNCHANGED outcome
       \/ /\ \E exc \in DumpErrors(task[n].function) :
                Fail(n, "dump", inputs_uri(task[n]), exc)
          /\ \E c \in AfterFailedWrite(store[inputs_uri(task[n])]) :
                store' = [store EXCEPT ![inputs_uri(task[n])] = c]
    /\ UNCHANGED <<config, task, spec, response, state, error, slept, calls,
                   createLog>>

(* Mutant: a failed dump is swallowed and submit goes on *)
StageDump_Swallow(n) ==
    /\ pc[n] = "stage_dump"
    /\ \/ /\ Serializable(task[n].function)
          /\ Log(n, "dump", inputs_uri(task[n]), Ok(""))
          /\ store' = [store EXCEPT ![inputs_uri(task[n])] = Pickled(task[n])]
       \/ /\ \E exc \in DumpErrors(task[n].function) :
                Log(n, "dump", inputs_uri(task[n]), Raised(exc))
          /\ \E c \in AfterFailedWrite(store[inputs_uri(task[n])]) :
                store' = [store EXCEPT ![inputs_uri(task[n])] = c]
    /\ Goto(n, "translate")
    /\ UNCHANGED <<config, task, spec, response, state, error, slept, calls,
                   outcome, createLog>>

(* _stage: cloudpickle.dump(self, f) and the close of the `with` block *)
StageDump(n) ==
    /\ pc[n] = "stage_dump"
    /\ \/ /\ Serializable(task[n].function)
          /\ Log(n, "dump", inputs_uri(task[n]), Ok(""))
          /\ store' = [store EXCEPT ![inputs_uri(task[n])] = Pickled(task[n])]
          /\ Goto(n, "translate")
          /\ UNCHANGED outcome
       \/ /\ \E exc \in DumpErrors(task[n].function) :
                Fail(n, "dump", inputs_uri(task[n]), exc)
          /\ \E c \in AfterFailedWrite(store[inputs_uri(task[n])]) :
                store' = [store EXCEPT ![inputs_uri(task[n])] = c]
    /\ UNCHANGED <<config, task, spec, response, state, error, slept, calls,
                   createLog>>

(* Mutant: translation fills a default into the Task it reads *)
Translate_FillsDefault(n) ==
    /\ pc[n] = "translate"
    /\ spec' = [spec EXCEPT ![n] = Some(_ai_platform_job_spec(task[n]))]
    /\ task' = [task EXCEPT ![n].task_config.worker_machine =
                   Some("n1-highmem-2")]
    /\ Goto(n, "create")
    /\ UNCHANGED <<config, response, state, error, trace, slept,
                   outcome, calls, store, createLog>>

(* spec = self._ai_platform_job_spec() *)
Translate(n) ==
    /\ pc[n] = "translate"
    /\ spec' = [spec EXCEPT ![n] = Some(_ai_platform_job_spec(task[n]))]
    /\ Goto(n, "create")
    /\ UNCHANGED <<config, task, response, state, error, trace, slept,
                   outcome, calls, store, createLog>>

(* Mutant: the request is addressed to the jobs collection *)
Parent_Jobs(self) == "projects/" \o self.config.project_name \o "/jobs"

Parent(self) == "projects/" \o self.config.project_name

(* aip_client.projects().jobs().create(body=spec, parent=...) *)
BuildCreate(n) ==
    /\ pc[n] = "create"
    /\ \/ /\ Log(n, "build_create", Parent(task[n]), Ok(""))
          /\ Goto(n, "execute")
          /\ UNCHANGED outcome
       \/ Fail(n, "build_create", Parent(task[n]),
               Exception("TypeError", "create"))
    /\ UNCHANGED <<config, task, spec, response, state, error, slept, calls,
                   store, createLog>>

(* Mutant: a failed create removes the staged input *)
ExecuteCreate_Cleanup(n) ==
    /\ pc[n] = "execute"
    /\ \/ /\ Log(n, "execute_create", Parent(task[n]), Ok(""))
          /\ createLog' = Append(createLog,
                [body |-> spec[n][1], parent |-> Parent(task[n])])
          /\ Return(n, None)
          /\ UNCHANGED store
       \/ /\ Fail(n, "execute_create", Parent(task[n]),
                  Exception("HttpError", "create"))
          /\ store' = [store EXCEPT ![inputs_uri(task[n])] = Absent]
          /\ UNCHANGED createLog
    /\ UNCHANGED <<config, task, spec, response, state, error, slept, calls>>

(* request.execute() *)
ExecuteCreate(n) ==
    /\ pc[n] = "execute"
    /\ \/ /\ Log(n, "execute_create", Parent(task[n]), Ok(""))
          /\ createLog' = Append(createLog,
                [body |-> spec[n][1], parent |-> Parent(task[n])])
          /\ Return(n, None)
       \/ /\ Fail(n, "execute_create", Parent(task[n]),
                  Exception("HttpError", "create"))
          /\ UNCHANGED createLog
    /\ UNCHANGED <<config, task, spec, response, state, error, slept, calls,
                   store>>

----------------------------------------------------------------------------
(* Task.wait_for_results *)

CallWait(n) == StartCall(n, "describe")

JobName(self) ==
    "projects/" \o self.config.project_name \o "/jobs/" \o job_id(self)

(* state, error = State[response["state"]], response.get("errorMessage", None) *)
ErrorOf(r) ==
    IF "errorMessage" \in DOMAIN r THEN Some(r.errorMessage) ELSE None

(* Mutant: the loop polls but keeps the state it read first *)
Describe_Stale(n) ==
    /\ pc[n] = "describe"
    /\ Count(trace[n], "describe") < MaxPolls
    /\ \/ /\ \E r \in Responses :
                /\ Log(n, "describe", JobName(task[n]), Ok(r))
                /\ response' = [response EXCEPT ![n] = Some(r)]
                /\ state' = [state EXCEPT ![n] =
                                IF @ = None THEN Some(r.state) ELSE @]
                /\ error' = [error EXCEPT ![n] = ErrorOf(r)]
          /\ Goto(n, "loop")
          /\ UNCHANGED outcome
       \/ /\ Fail(n, "describe", JobName(task[n]), Exception("HttpError", "get"))
          /\ UNCHANGED <<response, state, error>>
    /\ UNCHANGED <<config, task, spec, slept, calls, store, createLog>>

(* Mutant: a failed status check is retried *)
Describe_Retry(n) ==
    /\ pc[n] = "describe"
    /\ Count(trace[n], "describe") < MaxPolls
    /\ \/ /\ \E r \in Responses :
                /\ Log(n, "describe", JobName(task[n]), Ok(r))
                /\ response' = [response EXCEPT ![n] = Some(r)]
                /\ state' = [state EXCEPT ![n] = Some(r.state)]
                /\ error' = [error EXCEPT ![n] = ErrorOf(r)]
          /\ Goto(n, "loop")
       \/ /\ Log(n, "describe", JobName(task[n]),
                 Raised(Exception("HttpError", "get")))
          /\ UNCHANGED <<pc, response, state, error>>
    /\ UNCHANGED <<config, task, spec, slept, outcome, calls, store, createLog>>

(* _get_state_and_error, called at line 134 and at line 137 *)
Describe(n) ==
    /\ pc[n] = "describe"
    /\ Count(trace[n], "describe") < MaxPolls
    /\ \/ /\ \E r \in Responses :
                /\ Log(n, "describe", JobName(task[n]), Ok(r))
                /\ response' = [response EXCEPT ![n] = Some(r)]
                /\ state' = [state EXCEPT ![n] = Some(r.state)]
                /\ error' = [error EXCEPT ![n] = ErrorOf(r)]
          /\ Goto(n, "loop")
          /\ UNCHANGED outcome
       \/ /\ Fail(n, "describe", JobName(task[n]), Exception("HttpError", "get"))
          /\ UNCHANGED <<response, state, error>>
    /\ UNCHANGED <<config, task, spec, slept, calls, store, createLog>>

(* Mutant: the loop polls again without sleeping *)
Sleep_Busy(n) ==
    /\ pc[n] = "loop"
    /\ is_executing(state[n][1])
    /\ Goto(n, "describe")
    /\ UNCHANGED <<config, task, spec, response, state, error, trace, slept,
                   outcome, calls, store, createLog>>

(* Mutant: the loop gives up after two sleeps *)
Sleep_Timeout(n) ==
    /\ pc[n] = "loop"
    /\ is_executing(state[n][1])
    /\ IF slept[n] >= 2 * SleepInterval
       THEN /\ Raise(n, Exception("TimeoutError", "wait"))
            /\ UNCHANGED <<trace, slept>>
       ELSE /\ Log(n, "sleep", "", Ok(""))
            /\ slept' = [slept EXCEPT ![n] = @ + SleepInterval]
            /\ Goto(n, "describe")
            /\ UNCHANGED outcome
    /\ UNCHANGED <<config, task, spec, response, state, error, calls, store,
                   createLog>>

(* while state.is_executing(): time.sleep(10) *)
Sleep(n) ==
    /\ pc[n] = "loop"
    /\ is_executing(state[n][1])
    /\ Log(n, "sleep", "", Ok(""))
    /\ slept' = [slept EXCEPT ![n] = @ + SleepInterval]
    /\ Goto(n, "describe")
    /\ UNCHANGED <<config, task, spec, response, state, error, outcome,
                   calls, store, createLog>>

(* Mutant: only FAILED raises, any other terminal state reads the output *)
CheckState_OnlyFailed(n) ==
    /\ pc[n] = "loop"
    /\ ~is_executing(state[n][1])
    /\ IF state[n][1] = "FAILED"
       THEN Raise(n, AipError(job_id(task[n]) \o ": " \o str(error[n])))
       ELSE Goto(n, "open_output") /\ UNCHANGED outcome
    /\ UNCHANGED <<config, task, spec, response, state, error, trace, slept,
                   calls, store, createLog>>

(* Mutant: the message leaves the job id out *)
CheckState_NoJobId(n) ==
    /\ pc[n] = "loop"
    /\ ~is_executing(state[n][1])
    /\ IF state[n][1] # "SUCCEEDED"
       THEN Raise(n, AipError(str(error[n])))
       ELSE Goto(n, "open_output") /\ UNCHANGED outcome
    /\ UNCHANGED <<config, task, spec, response, state, error, trace, slept,
                   calls, store, createLog>>

(* if state is not State.SUCCEEDED: raise AipError(...) *)
CheckState(n) ==
    /\ pc[n] = "loop"
    /\ ~is_executing(state[n][1])
    /\ IF state[n][1] # "SUCCEEDED"
       THEN Raise(n, AipError(job_id(task[n]) \o ": " \o str(error[n])))
       ELSE Goto(n, "open_output") /\ UNCHANGED outcome
    /\ UNCHANGED <<config, task, spec, response, state, error, trace, slept,
                   calls, store, createLog>>

(* Mutant: a missing output sends the call back to polling *)
OpenOutput_Repoll(n) ==
    /\ pc[n] = "open_output"
    /\ IF store[output_uri(task[n])] = Absent
       THEN /\ Log(n, "open_rb", output_uri(task[n]),
                   Raised(Exception("FileNotFoundError", "open")))
            /\ Goto(n, "describe")
            /\ UNCHANGED outcome
       ELSE \/ /\ Log(n, "open_rb", output_uri(task[n]), Ok(""))
               /\ Goto(n, "load")
               /\ UNCHANGED outcome
            \/ Fail(n, "open_rb", output_uri(task[n]),
                    Exception("OSError", "open"))
    /\ UNCHANGED <<config, task, spec, response, state, error, slept, calls,
                   store, createLog>>

(* gcs_fs.open(self.output_uri, "rb") *)
OpenOutput(n) ==
    /\ pc[n] = "open_output"
    /\ IF store[output_uri(task[n])] = Absent
       THEN Fail(n, "open_rb", output_uri(task[n]),
                 Exception("FileNotFoundError", "open"))
       ELSE \/ /\ Log(n, "open_rb", output_uri(task[n]), Ok(""))
               /\ Goto(n, "load")
               /\ UNCHANGED outcome
            \/ Fail(n, "open_rb", output_uri(task[n]),
                    Exception("OSError", "open"))
    /\ UNCHANGED <<config, task, spec, response, state, error, slept, calls,
                   store, createLog>>

(* return pickle.load(f) *)
Load(n) ==
    /\ pc[n] = "load"
    /\ IF store[output_uri(task[n])].kind = "pickle"
       THEN /\ Log(n, "load", output_uri(task[n]), Ok(""))
            /\ Return(n, store[output_uri(task[n])].obj)
       ELSE Fail(n, "load", output_uri(task[n]),
                 Exception("UnpicklingError", "load"))
    /\ UNCHANGED <<config, task, spec, response, state, error, slept, calls,
                   store, createLog>>

----------------------------------------------------------------------------
(* The remote process of a created job leaves its output (or garbage) at  *)
(* the task's output location.                                            *)
Created(n) ==
    \E i \in DOMAIN createLog : createLog[i].body.jobId = job_id(task[n])

RemoteJob(n) ==
    /\ task[n] # NoTask
    /\ Created(n)
    /\ store[output_uri(task[n])] = Absent
    /\ \E c \in OutputContents \ {Absent} :
         store' = [store EXCEPT ![output_uri(task[n])] = c]
    /\ UNCHANGED <<config, task, pc, spec, response, state, error, trace,
                   slept, outcome, calls, createLog>>

----------------------------------------------------------------------------
(* One task lifecycle: the tasks that may act while no other task exists *)
Lone == {n \in Names : \A m \in Names \ {n} : pc[m] = "new"}

Next ==
    \/ \E n \in Lone : Construct(n) /\ UNCHANGED cacheVars
    \/ \E n \in Lone : CallSubmit(n) /\ UNCHANGED cacheVars
    \/ \E n \in Lone : StageOpen(n) /\ UNCHANGED cacheVars
    \/ \E n \in Lone : StageDump(n) /\ UNCHANGED cacheVars
    \/ \E n \in Lone : Translate(n) /\ UNCHANGED cacheVars
    \/ \E n \in Lone : BuildCreate(n) /\ UNCHANGED cacheVars
    \/ \E n \in Lone : ExecuteCreate(n) /\ UNCHANGED cacheVars
    \/ \E n \in Lone : CallWait(n) /\ UNCHANGED cacheVars
    \/ \E n \in Lone : Describe(n) /\ UNCHANGED cacheVars
    \/ \E n \in Lone : Sleep(n) /\ UNCHANGED cacheVars
    \/ \E n \in Lone : CheckState(n) /\ UNCHANGED cacheVars
    \/ \E n \in Lone : OpenOutput(n) /\ UNCHANGED cacheVars
    \/ \E n \in Lone : Load(n) /\ UNCHANGED cacheVars
    \/ \E n \in Lone : RemoteJob(n) /\ UNCHANGED cacheVars

Spec == Init /\ [][Next]_vars

----------------------------------------------------------------------------
(* A provider whose job reaches a terminal state: of the describe calls   *)
(* one invocation makes, the last one the model allows is not answered    *)
(* with an executing state.                                               *)
ProviderSettles(n) ==
    Count(trace[n], "describe") = MaxPolls =>
        \/ trace[n][Len(trace[n])].res[1] = "raised"
        \/ ~is_executing(trace[n][Len(trace[n])].res[2].state)

DescribeSettling(n) == Describe(n) /\ ProviderSettles(n)'

(* The steps of a running wait_for_results call: a blocking call goes on *)
WaitStep(n) ==
    /\ n \in Lone
    /\ \/ DescribeSettling(n)
       \/ Sleep(n)
       \/ CheckState(n)
       \/ OpenOutput(n)
       \/ Load(n)
    /\ UNCHANGED cacheVars

NextLive ==
    \/ \E n \in Lone : Construct(n) /\ UNCHANGED cacheVars
    \/ \E n \in Lone : CallSubmit(n) /\ UNCHANGED cacheVars
    \/ \E n \in Lone : StageOpen(n) /\ UNCHANGED cacheVars
    \/ \E n \in Lone : StageDump(n) /\ UNCHANGED cacheVars
    \/ \E n \in Lone : Translate(n) /\ UNCHANGED cacheVars
    \/ \E n \in Lone : BuildCreate(n) /\ UNCHANGED cacheVars
    \/ \E n \in Lone : ExecuteCreate(n) /\ UNCHANGED cacheVars
    \/ \E n \in Lone : CallWait(n) /\ UNCHANGED cacheVars
    \/ \E n \in Lone : DescribeSettling(n) /\ UNCHANGED cacheVars
    \/ \E n \in Lone : Sleep(n) /\ UNCHANGED cacheVars
    \/ \E n \in Lone : CheckState(n) /\ UNCHANGED cacheVars
    \/ \E n \in Lone : OpenOutput(n) /\ UNCHANGED cacheVars
    \/ \E n \in Lone : Load(n) /\ UNCHANGED cacheVars
    \/ \E n \in Lone : RemoteJob(n) /\ UNCHANGED cacheVars

SpecLive ==
    /\ Init
    /\ [][NextLive]_vars
    /\ \A n \in Names : WF_vars(WaitStep(n))

----------------------------------------------------------------------------
(* Two task lifecycles under one Config, interleaved step by step: each  *)
(* caller constructs its Task, submits it, and waits once the submit     *)
(* returned.                                                             *)
InitPar ==
    /\ Init
    /\ config.account = None
    /\ config.network = None

ConstructPlain(n) ==
    /\ Construct(n)
    /\ task'[n].function = "fn"
    /\ task'[n].task_config.worker_count = None
    /\ task'[n].task_config.worker_machine = None

LifeSubmit(n) == CallSubmit(n) /\ calls[n] = 0

LifeWait(n) ==
    /\ CallWait(n)
    /\ calls[n] = 1
    /\ outcome[n].kind = "returned"

NextPar ==
    \/ \E n \in Names : ConstructPlain(n) /\ UNCHANGED cacheVars
    \/ \E n \in Names : LifeSubmit(n) /\ UNCHANGED cacheVars
    \/ \E n \in Names : StageOpen(n) /\ UNCHANGED cacheVars
    \/ \E n \in Names : StageDump(n) /\ UNCHANGED cacheVars
    \/ \E n \in Names : Translate(n) /\ UNCHANGED cacheVars
    \/ \E n \in Names : BuildCreate(n) /\ UNCHANGED cacheVars
    \/ \E n \in Names : ExecuteCreate(n) /\ UNCHANGED cacheVars
    \/ \E n \in Names : LifeWait(n) /\ UNCHANGED cacheVars
    \/ \E n \in Names : Describe(n) /\ UNCHANGED cacheVars
    \/ \E n \in Names : Sleep(n) /\ UNCHANGED cacheVars
    \/ \E n \in Names : CheckState(n) /\ UNCHANGED cacheVars
    \/ \E n \in Names : OpenOutput(n) /\ UNCHANGED cacheVars
    \/ \E n \in Names : Load(n) /\ UNCHANGED cacheVars
    \/ \E n \in Names : RemoteJob(n) /\ UNCHANGED cacheVars

SpecPar == InitPar /\ [][NextPar]_vars

----------------------------------------------------------------------------
(* bionic/cache_api.py: the cache inventory browser                       *)

MaxItems == 2       \* items one inventory lists

(* URLs are strings; they are kept as their code points, which is what the *)
(* comparison of two Python strings goes by.                               *)
URL_a  == <<97>>            \* "a"
URL_ab == <<97, 98>>        \* "ab"
URL_b  == <<98>>            \* "b"
URL_x  == <<120>>           \* "x"
URL_y  == <<121>>           \* "y"

Tiers == {"local", "cloud"}

(* The items an inventory of the given tier may list *)
InvItems(tier) ==
    { [abs_metadata_url |-> URL_a,  abs_artifact_url |-> URL_x,
       descriptor |-> "<model>", inventory |-> [tier |-> tier]],
      [abs_metadata_url |-> URL_a,  abs_artifact_url |-> URL_y,
       descriptor |-> "<data>",  inventory |-> [tier |-> tier]],
      [abs_metadata_url |-> URL_ab, abs_artifact_url |-> URL_x,
       descriptor |-> "<data>",  inventory |-> [tier |-> tier]],
      [abs_metadata_url |-> URL_b,  abs_artifact_url |-> URL_y,
       descriptor |-> "<model>", inventory |-> [tier |-> tier]] }

Inventories(tier) ==
    [tier : {tier},
     items : UNION {[1..k -> InvItems(tier)] : k \in 0..MaxItems}]

StoresOf(tier) == [inventory : Inventories(tier)]

list_items(inventory) == inventory.items

(* str.__lt__: lexicographic by code point, a proper prefix being smaller *)
RECURSIVE str_lt(_, _)
str_lt(s, t) ==
    IF t = <<>> THEN FALSE
    ELSE IF s = <<>> THEN TRUE
    ELSE IF s[1] # t[1] THEN s[1] < t[1]
    ELSE str_lt(Tail(s), Tail(t))

(* hash(str): some function of the characters (the sum of the code points) *)
RECURSIVE hash(_)
hash(s) == IF s = <<>> THEN 0 ELSE s[1] + hash(Tail(s))

(* Mutant: the comparison key is the artifact URL *)
CacheEntry_KeyedByArtifact(inv_item) ==
    [_comparison_key |-> inv_item.abs_artifact_url,
     tier            |-> inv_item.inventory.tier,
     artifact_url    |-> inv_item.abs_artifact_url,
     metadata_url    |-> inv_item.abs_metadata_url,
     _descriptor     |-> inv_item.descriptor,
     _inventory      |-> inv_item.inventory]

(* CacheEntry.__init__ (the back reference _cache is left out) *)
CacheEntry(inv_item) ==
    [_comparison_key |-> inv_item.abs_metadata_url,
     tier            |-> inv_item.inventory.tier,
     artifact_url    |-> inv_item.abs_artifact_url,
     metadata_url    |-> inv_item.abs_metadata_url,
     _descriptor     |-> inv_item.descriptor,
     _inventory      |-> inv_item.inventory]

isinstance_CacheEntry(other) == "_comparison_key" \in DOMAIN other

__hash__(self) == hash(self._comparison_key)

__eq__(self, other) ==
    IF ~isinstance_CacheEntry(other) THEN FALSE
    ELSE self._comparison_key = other._comparison_key

(* For a non-CacheEntry the TypeError is returned, not raised *)
__lt__(self, other) ==
    IF ~isinstance_CacheEntry(other) THEN [type |-> "TypeError"]
    ELSE str_lt(self._comparison_key, other._comparison_key)

(* sorted(): stable, and by __lt__ alone.  Each element goes in before the *)
(* first element it is less than.                                         *)
Insert(seq, x) ==
    LET greater == {k \in DOMAIN seq : __lt__(x, seq[k])}
        at == IF greater = {}
              THEN Len(seq) + 1
              ELSE CHOOSE k \in greater : \A j \in greater : k <= j
    IN  SubSeq(seq, 1, at - 1) \o <<x>> \o SubSeq(seq, at, Len(seq))

RECURSIVE sorted(_)
sorted(seq) ==
    IF seq = <<>> THEN <<>>
    ELSE Insert(sorted(SubSeq(seq, 1, Len(seq) - 1)), seq[Len(seq)])

CacheEvent(op, arg, res) == [op |-> op, arg |-> arg, res |-> res]

(* Mutant: the absent stores stay in the list *)
PresentStores_Unfiltered(cache) == <<cache._local_store, cache._cloud_store>>

(* get_entries, lines 47-51: the stores that are not None, local first *)
PresentStores(cache) ==
    SelectSeq(<<cache._local_store, cache._cloud_store>>,
              LAMBDA store_ : store_ # None)

(* The persistent cache as the bootstrap built it: each tier present or not *)
CacheSetup ==
    /\ generator.pc = "new"
    /\ \E l \in Optional(StoresOf("local")), c \in Optional(StoresOf("cloud")) :
          persistent_cache' = [_local_store |-> l, _cloud_store |-> c]
    /\ generator' = [generator EXCEPT !.pc = "idle"]
    /\ UNCHANGED <<entries, cacheTrace, ordered, taskVars>>

(* Cache.get_entries, lines 44-57: get_ready and the store list happen in *)
(* the call; the generator it returns has not run yet.                    *)
GetEntries ==
    /\ generator.pc = "idle"
    /\ \/ /\ cacheTrace' = Append(cacheTrace, CacheEvent("get_ready", "deriver", "raised"))
          /\ generator' = [generator EXCEPT !.pc = "failed"]
       \/ /\ cacheTrace' = Append(cacheTrace, CacheEvent("get_ready", "deriver", "ok"))
          /\ generator' = [pc |-> "suspended", stores |-> PresentStores(persistent_cache),
                           s |-> 1, items |-> None, i |-> 0]
    /\ UNCHANGED <<persistent_cache, entries, ordered, taskVars>>

(* The generator expression of lines 53-57, run from where it stands to    *)
(* its next yield or to its end: `s` is the store the outer loop is at,   *)
(* `items` what list_items gave for it, `i` how many of them were yielded.*)
(* On None, `.inventory` raises AttributeError.                           *)
RECURSIVE Resume(_, _)
Resume(g, log) ==
    IF g.s > Len(g.stores)
    THEN [gen |-> [g EXCEPT !.pc = "exhausted"], log |-> log, out |-> None]
    ELSE IF g.items = None
    THEN IF g.stores[g.s] = None
         THEN [gen |-> [g EXCEPT !.pc = "raised"],
               log |-> Append(log, CacheEvent("inventory", "None", "raised")),
               out |-> None]
         ELSE LET inventory == g.stores[g.s][1].inventory
              IN  Resume([g EXCEPT !.items = Some(list_items(inventory))],
                         Append(log, CacheEvent("list_items", inventory.tier, "ok")))
    ELSE IF g.i < Len(g.items[1])
    THEN [gen |-> [g EXCEPT !.i = @ + 1],
          log |-> log,
          out |-> Some(CacheEntry(g.items[1][g.i + 1]))]
    ELSE Resume([g EXCEPT !.s = @ + 1, !.items = None, !.i = 0], log)

(* The caller takes the next entry from the generator *)
GenNext ==
    /\ generator.pc = "suspended"
    /\ LET r == Resume(generator, cacheTrace)
       IN  /\ generator' = r.gen
           /\ cacheTrace' = r.log
           /\ entries' = IF r.out = None THEN entries ELSE Append(entries, r.out[1])
    /\ UNCHANGED <<persistent_cache, ordered, taskVars>>

(* The caller sorts the entries it received *)
Sort ==
    /\ generator.pc = "exhausted"
    /\ ordered = None
    /\ ordered' = Some(sorted(entries))
    /\ UNCHANGED <<persistent_cache, generator, entries, cacheTrace, taskVars>>

NextCache ==
    \/ CacheSetup
    \/ GetEntries
    \/ GenNext
    \/ Sort

SpecCache == Init /\ [][NextCache]_vars

----------------------------------------------------------------------------
(* Vocabulary of the properties *)

Constructed(n) == task[n] # NoTask

Raises(e) == e.res[1] = "raised"
Answers(e) == e.res[1] = "ok"

(* The call of task n ended by raising exactly what event e raised *)
Propagated(n, e) ==
    /\ pc[n] = "idle"
    /\ outcome[n].kind = "raised"
    /\ outcome[n].exc = e.res[2]

LastEvent(n) == trace[n][Len(trace[n])]

CreatedCount(n) ==
    Cardinality({i \in DOMAIN createLog :
                    createLog[i].body.jobId = job_id(task[n])})

(* C1: in submit, when staging fails (the open for writing or the dump     *)
(* raises), that error reaches the caller, nothing is called afterwards,   *)
(* and no create-job request is built or executed by the call.             *)
C1_StagingFailureCreatesNoJob ==
    \A n \in Names : \A i \in DOMAIN trace[n] :
        (trace[n][i].op \in {"open_wb", "dump"} /\ Raises(trace[n][i])) =>
            /\ i = Len(trace[n])
            /\ Propagated(n, trace[n][i])
            /\ \A j \in DOMAIN trace[n] :
                  trace[n][j].op \notin {"build_create", "execute_create"}
            /\ CreatedCount(n) < calls[n]

C1_Witness ==
    \E n \in Names :
        /\ pc[n] = "idle"
        /\ trace[n] # <<>>
        /\ LastEvent(n).op = "dump"
        /\ Raises(LastEvent(n))
        /\ LastEvent(n).res[2].type = "PicklingError"
        /\ outcome[n].kind = "raised"
        /\ createLog = <<>>

(* C2: in wait_for_results the output object is opened only right after a  *)
(* describe call of the same invocation answered SUCCEEDED; after an       *)
(* executing answer no retrieval happens, and after any other terminal     *)
(* answer the call raises AipError and reads nothing.                      *)
C2_OutputReadOnlyAfterSucceeded ==
    \A n \in Names : \A i \in DOMAIN trace[n] :
        /\ trace[n][i].op \in {"open_rb", "load"} =>
              \E j \in 1 .. (i - 1) :
                 /\ trace[n][j].op = "describe"
                 /\ Answers(trace[n][j])
                 /\ trace[n][j].res[2].state = "SUCCEEDED"
                 /\ \A k \in (j + 1) .. (i - 1) : trace[n][k].op = "open_rb"
        /\ (trace[n][i].op = "describe" /\ Answers(trace[n][i])
                /\ is_executing(trace[n][i].res[2].state)) =>
              IF i = Len(trace[n])
              THEN pc[n] = "loop" /\ outcome[n] = NoOutcome
              ELSE trace[n][i + 1].op = "sleep"
        /\ (trace[n][i].op = "describe" /\ Answers(trace[n][i])
                /\ ~is_executing(trace[n][i].res[2].state)
                /\ trace[n][i].res[2].state # "SUCCEEDED") =>
              /\ i = Len(trace[n])
              /\ \/ pc[n] = "loop"
                 \/ /\ pc[n] = "idle"
                    /\ outcome[n].kind = "raised"
                    /\ outcome[n].exc.type = "AipError"

C2_Witness ==
    \E n \in Names :
        /\ pc[n] = "load"
        /\ Len(trace[n]) = 4
        /\ Ops(trace[n]) = <<"describe", "sleep", "describe", "open_rb">>
        /\ trace[n][1].res[2].state = "RUNNING"
        /\ trace[n][3].res[2].state = "SUCCEEDED"

(* C3: when the provider answers k executing states and then a terminal    *)
(* state, wait_for_results makes exactly k+1 describe calls and k sleeps   *)
(* of 10 time units, one sleep between each two consecutive describe calls *)
(* and nothing else in between.                                            *)
C3_PollsAndSleepsAlternate ==
    \A n \in Names : \A i \in DOMAIN trace[n] :
        (trace[n][i].op = "describe" /\ Answers(trace[n][i])
            /\ ~is_executing(trace[n][i].res[2].state)) =>
            /\ i % 2 = 1
            /\ \A j \in 1 .. (i - 1) :
                  IF j % 2 = 1
                  THEN /\ trace[n][j].op = "describe"
                       /\ Answers(trace[n][j])
                       /\ is_executing(trace[n][j].res[2].state)
                  ELSE trace[n][j].op = "sleep"
            /\ \A j \in (i + 1) .. Len(trace[n]) :
                  trace[n][j].op \notin {"describe", "sleep"}
            /\ Count(trace[n], "describe") = (i - 1) \div 2 + 1
            /\ Count(trace[n], "sleep") = (i - 1) \div 2
            /\ slept[n] = SleepInterval * ((i - 1) \div 2)

C3_Witness ==
    \E n \in Names :
        /\ pc[n] = "idle"
        /\ Ops(trace[n]) =
              <<"describe", "sleep", "describe", "sleep", "describe",
                "open_rb", "load">>
        /\ trace[n][1].res[2].state = "RUNNING"
        /\ trace[n][3].res[2].state = "RUNNING"
        /\ trace[n][5].res[2].state = "SUCCEEDED"
        /\ slept[n] = 20
        /\ outcome[n] = [kind |-> "returned", value |-> "result"]

(* C4: the AipError raised after a terminal answer other than SUCCEEDED    *)
(* carries the task's jobId and the error message of that same final       *)
(* describe answer; when the answer holds no errorMessage, the text        *)
(* carried after the jobId is str(None), the four letters "None".          *)
C4_ErrorCarriesJobIdAndMessage ==
    \A n \in Names :
        (pc[n] = "idle" /\ outcome[n].kind = "raised"
            /\ outcome[n].exc.type = "AipError") =>
            /\ trace[n] # <<>>
            /\ LastEvent(n).op = "describe"
            /\ Answers(LastEvent(n))
            /\ LastEvent(n).res[2].state \notin {"SUCCEEDED"}
            /\ ~is_executing(LastEvent(n).res[2].state)
            /\ outcome[n].exc.msg =
                  job_id(task[n]) \o ": "
                    \o (IF "errorMessage" \in DOMAIN LastEvent(n).res[2]
                        THEN LastEvent(n).res[2].errorMessage
                        ELSE "None")

C4_Witness ==
    \E n \in Names :
        /\ pc[n] = "idle"
        /\ Ops(trace[n]) = <<"describe", "sleep", "describe">>
        /\ trace[n][1].res[2] = [state |-> "RUNNING"]
        /\ trace[n][3].res[2] = [state |-> "FAILED", errorMessage |-> "oom"]
        /\ outcome[n] = [kind |-> "raised", exc |-> AipError("u1_" \o n \o ": oom")]

(* C4 as first stated: when the provider gives no error message, the      *)
(* message carried after the jobId is empty.                              *)
C4_NoMessageIsEmpty ==
    \A n \in Names :
        (pc[n] = "idle" /\ outcome[n].kind = "raised"
            /\ outcome[n].exc.type = "AipError"
            /\ "errorMessage" \notin DOMAIN LastEvent(n).res[2]) =>
            outcome[n].exc.msg = job_id(task[n]) \o ": "

(* C5: in submit, when staging succeeded and the create-job call fails     *)
(* (building the request or executing it), that error reaches the caller   *)
(* and the object staged at inputsUri is still in the store: submit calls  *)
(* nothing that deletes it.                                                *)
C5_StagedInputSurvivesFailedCreate ==
    \A n \in Names : \A i \in DOMAIN trace[n] :
        (trace[n][i].op \in {"build_create", "execute_create"}
            /\ Raises(trace[n][i])) =>
            /\ i = Len(trace[n])
            /\ Propagated(n, trace[n][i])
            /\ trace[n][2].op = "dump" /\ Answers(trace[n][2])
            /\ store[inputs_uri(task[n])] = Pickled(task[n])
            /\ \A j \in DOMAIN trace[n] :
                  trace[n][j].op \in
                     {"open_wb", "dump", "build_create", "execute_create"}

C5_Witness ==
    \E n \in Names :
        /\ pc[n] = "idle"
        /\ Ops(trace[n]) = <<"open_wb", "dump", "build_create", "execute_create">>
        /\ Raises(trace[n][4])
        /\ outcome[n] = [kind |-> "raised", exc |-> Exception("HttpError", "create")]
        /\ store[inputs_uri(task[n])] = Pickled(task[n])
        /\ createLog = <<>>

(* C6: wait_for_results has no timeout: as long as every describe call of  *)
(* the invocation answered an executing state, the call has neither        *)
(* returned nor raised, it has only polled and slept, and its next sleep   *)
(* or describe is due.                                                     *)
OnlyExecutingSoFar(n) ==
    /\ trace[n] # <<>>
    /\ trace[n][1].op = "describe"
    /\ \A i \in DOMAIN trace[n] :
          trace[n][i].op = "describe" =>
             Answers(trace[n][i]) /\ is_executing(trace[n][i].res[2].state)

C6_NoTimeoutWhileExecuting ==
    \A n \in Names :
        OnlyExecutingSoFar(n) =>
            /\ outcome[n] = NoOutcome
            /\ \A i \in DOMAIN trace[n] : trace[n][i].op \in {"describe", "sleep"}
            /\ \/ pc[n] = "loop" /\ LastEvent(n).op = "describe" /\ ENABLED Sleep(n)
               \/ pc[n] = "describe" /\ LastEvent(n).op = "sleep"
            /\ slept[n] = SleepInterval * Count(trace[n], "sleep")

C6_Witness ==
    \E n \in Names :
        /\ OnlyExecutingSoFar(n)
        /\ Count(trace[n], "describe") = MaxPolls
        /\ pc[n] = "loop"
        /\ slept[n] = SleepInterval * (MaxPolls - 1)

(* C7: a TaskConfig with a positive worker_count and no worker_machine is  *)
(* rejected at construction, so no such Task exists, is staged, translated *)
(* or sent in a create-job request.                                        *)
MissingWorkerMachine(tc) ==
    /\ tc.worker_count # None
    /\ tc.worker_count[1] > 0
    /\ tc.worker_machine = None

C7_MissingWorkerMachineRejected ==
    /\ \A n \in Names :
          Constructed(n) => ~MissingWorkerMachine(task[n].task_config)
    /\ \A i \in DOMAIN createLog :
          "workerCount" \in DOMAIN createLog[i].body.trainingInput =>
             createLog[i].body.trainingInput.workerType # None

(* C8: trainingInput.serviceAccount is in the translated job spec if and   *)
(* only if Config.account is not None; it is never present as None.        *)
C8_ServiceAccountIffAccount ==
    \A n \in Names :
        spec[n] # None =>
            /\ "serviceAccount" \in DOMAIN spec[n][1].trainingInput
                  <=> task[n].config.account # None
            /\ "serviceAccount" \in DOMAIN spec[n][1].trainingInput =>
                  spec[n][1].trainingInput.serviceAccount # None

(* C9: trainingInput.network is in the translated job spec if and only if  *)
(* Config.network is not None, and then it equals Config.network.          *)
C9_NetworkIffNetwork ==
    \A n \in Names :
        spec[n] # None =>
            /\ "network" \in DOMAIN spec[n][1].trainingInput
                  <=> task[n].config.network # None
            /\ "network" \in DOMAIN spec[n][1].trainingInput =>
                  /\ spec[n][1].trainingInput.network # None
                  /\ spec[n][1].trainingInput.network = task[n].config.network

C9_Witness ==
    \E n \in Names :
        /\ spec[n] # None
        /\ task[n].config.network = Some("vpc")
        /\ "network" \in DOMAIN spec[n][1].trainingInput
        /\ spec[n][1].trainingInput.network = Some("vpc")

(* C10: with worker_count > 0 and worker_machine set, the translated job   *)
(* spec holds workerCount = worker_count, workerType = worker_machine and  *)
(* workerConfig.imageUri = image_uri; with worker_count None, zero or      *)
(* negative it holds none of the keys workerCount, workerType,             *)
(* workerConfig.                                                           *)
WorkerKeys == {"workerCount", "workerType", "workerConfig"}

C10_WorkerBlock ==
    \A n \in Names :
        spec[n] # None =>
            LET ti == spec[n][1].trainingInput
                tc == task[n].task_config
            IN  IF tc.worker_count # None /\ tc.worker_count[1] > 0
                THEN tc.worker_machine # None =>
                        /\ WorkerKeys \subseteq DOMAIN ti
                        /\ ti.workerCount = tc.worker_count
                        /\ ti.workerType = tc.worker_machine
                        /\ ti.workerConfig = [imageUri |-> task[n].config.image_uri]
                ELSE WorkerKeys \cap DOMAIN ti = {}

C10_Witness ==
    \E n \in Names :
        /\ spec[n] # None
        /\ task[n].task_config.worker_count = Some(2)
        /\ task[n].task_config.worker_machine = Some("n1-highmem-2")
        /\ spec[n][1].trainingInput.workerCount = Some(2)
        /\ spec[n][1].trainingInput.workerType = Some("n1-highmem-2")

(* C12: a describe call that fails is not retried: its error reaches the   *)
(* caller at once, no describe, sleep or output read follows it.           *)
C12_DescribeFailureIsFinal ==
    \A n \in Names : \A i \in DOMAIN trace[n] :
        (trace[n][i].op = "describe" /\ Raises(trace[n][i])) =>
            /\ i = Len(trace[n])
            /\ Propagated(n, trace[n][i])
            /\ \A j \in DOMAIN trace[n] :
                  /\ trace[n][j].op \in {"describe", "sleep"}
                  /\ j < i => Answers(trace[n][j])

C12_Witness ==
    \E n \in Names :
        /\ pc[n] = "idle"
        /\ Ops(trace[n]) = <<"describe", "sleep", "describe">>
        /\ Raises(trace[n][3])
        /\ outcome[n].kind = "raised"
        /\ outcome[n].exc.type = "HttpError"

(* C13: once constructed, a Task and its configs never change, whatever    *)
(* submit and wait_for_results calls are made and however they end: its    *)
(* fields, and so jobId, inputsUri and outputUri, stay what they were.     *)
C13_TaskNeverChanges ==
    /\ [](\A n \in Names : Constructed(n) => task[n].config = config)
    /\ [][/\ config' = config
          /\ \A n \in Names :
                Constructed(n) =>
                   /\ task'[n] = task[n]
                   /\ job_id(task'[n]) = job_id(task[n])
                   /\ inputs_uri(task'[n]) = inputs_uri(task[n])
                   /\ output_uri(task'[n]) = output_uri(task[n])]_vars

C13_Witness ==
    \E n \in Names :
        /\ Constructed(n)
        /\ calls[n] = 2
        /\ pc[n] = "idle"
        /\ outcome[n].kind = "raised"
        /\ createLog # <<>>
        /\ store[inputs_uri(task[n])] = Pickled(task[n])

(* C14: the args of the translated job spec are the three-element          *)
(* invocation python -m bionic.aip.main followed by one argument, the      *)
(* inputs URI: four elements in all; and that URI is the location submit   *)
(* has written the serialized Task to before it builds the create request. *)
C14_ArgsInvokeEntryPointOnInputs ==
    \A n \in Names :
        spec[n] # None =>
            LET args == spec[n][1].trainingInput.args
            IN  /\ Len(args) = 4
                /\ SubSeq(args, 1, 3) = <<"python", "-m", "bionic.aip.main">>
                /\ args[4] = inputs_uri(task[n])
                /\ trace[n][1].op = "open_wb"
                /\ trace[n][1].arg = args[4]
                /\ trace[n][2].op = "dump"
                /\ trace[n][2].arg = args[4]
                /\ Answers(trace[n][2])
                /\ store[args[4]] = Pickled(task[n])

C14_Witness ==
    \E n \in Names :
        /\ pc[n] = "execute"
        /\ spec[n] # None
        /\ spec[n][1].trainingInput.args[4] = "gs://proj/bionic/u1/" \o n \o "-inputs.cloudpickle"
        /\ store[spec[n][1].trainingInput.args[4]] = Pickled(task[n])

(* C14 as first stated: args has three elements *)
C14_ArgsHasThreeElements ==
    \A n \in Names :
        spec[n] # None => Len(spec[n][1].trainingInput.args) = 3

(* C16: in a submit call the create request is executed only after the     *)
(* write to inputsUri completed; a call that returns has executed exactly  *)
(* one create request, whose body is the translated job spec of the Task   *)
(* and whose parent is projects/{project_name}; the job service receives   *)
(* a request only at that step.                                            *)
C16_StageThenCreateOnce ==
    /\ [](\A n \in Names : \A i \in DOMAIN trace[n] :
            trace[n][i].op = "execute_create" =>
               /\ i = 4
               /\ Len(trace[n]) = 4
               /\ Ops(SubSeq(trace[n], 1, 3)) = <<"open_wb", "dump", "build_create">>
               /\ \A j \in 1 .. 3 : Answers(trace[n][j])
               /\ store[inputs_uri(task[n])] = Pickled(task[n])
               /\ pc[n] = "idle"
               /\ Answers(trace[n][i]) =>
                     /\ outcome[n].kind = "returned"
                     /\ createLog # <<>>
                     /\ createLog[Len(createLog)].body =
                           _ai_platform_job_spec(task[n])
                     /\ createLog[Len(createLog)].parent =
                           "projects/" \o task[n].config.project_name)
    /\ [][\/ createLog' = createLog
          \/ /\ Len(createLog') = Len(createLog) + 1
             /\ SubSeq(createLog', 1, Len(createLog)) = createLog
             /\ \E n \in Names :
                   /\ pc[n] = "execute"
                   /\ pc'[n] = "idle"
                   /\ outcome'[n].kind = "returned"]_vars
    /\ [][\A n \in Names :
            (pc[n] = "execute" /\ pc'[n] = "idle"
                /\ outcome'[n].kind = "returned") =>
                Len(createLog') = Len(createLog) + 1]_vars

C16_Witness ==
    \E n \in Names :
        /\ pc[n] = "idle"
        /\ Len(trace[n]) = 4
        /\ trace[n][4].op = "execute_create"
        /\ Answers(trace[n][4])
        /\ Len(createLog) = 1
        /\ createLog[1].parent = "projects/proj"
        /\ createLog[1].body.jobId = "u1_" \o n

(* C17: staging overwrites: whenever a staging of the Task has completed,  *)
(* the store holds the serialized Task at inputsUri and nothing at any     *)
(* location other than the Task's own input and output, and a staging over *)
(* an already staged Task leaves the store as it was.                      *)
C17_StagingIsIdempotent ==
    /\ [](\A n \in Names :
            (Len(trace[n]) >= 2 /\ trace[n][2].op = "dump"
                /\ Answers(trace[n][2])) =>
                /\ store[inputs_uri(task[n])] = Pickled(task[n])
                /\ \A u \in Uris \ {inputs_uri(task[n]), output_uri(task[n])} :
                      store[u] = Absent)
    /\ [][\A n \in Names :
            (pc[n] = "stage_dump" /\ pc'[n] = "translate"
                /\ store[inputs_uri(task[n])] = Pickled(task[n])) =>
                store' = store]_vars

C17_Witness ==
    \E n \in Names :
        /\ calls[n] = 2
        /\ pc[n] = "translate"
        /\ Len(createLog) = 1
        /\ store[inputs_uri(task[n])] = Pickled(task[n])

(* C18: after SUCCEEDED the output is read once: a missing or unreadable   *)
(* object ends the call with that error, which is no AipError; nothing is  *)
(* called after it, no second open and no further describe.                *)
C18_SingleReadAttempt ==
    \A n \in Names : \A i \in DOMAIN trace[n] :
        (trace[n][i].op \in {"open_rb", "load"} /\ Raises(trace[n][i])) =>
            /\ i = Len(trace[n])
            /\ Propagated(n, trace[n][i])
            /\ outcome[n].exc.type # "AipError"
            /\ Count(trace[n], "open_rb") = 1
            /\ Count(trace[n], "load") <= 1
            /\ \E j \in 1 .. (i - 1) :
                  /\ trace[n][j].op = "describe"
                  /\ trace[n][j].res[2].state = "SUCCEEDED"
                  /\ \A k \in (j + 1) .. i : trace[n][k].op # "describe"

C18_Witness ==
    \E n \in Names :
        /\ pc[n] = "idle"
        /\ Ops(trace[n]) = <<"describe", "open_rb">>
        /\ trace[n][1].res[2].state = "SUCCEEDED"
        /\ Raises(trace[n][2])
        /\ outcome[n] = [kind |-> "raised",
                         exc |-> Exception("FileNotFoundError", "open")]

(* C20: with a provider that reaches a terminal state, every               *)
(* wait_for_results call ends, returning the output or raising; and how    *)
(* it ends is decided by the last describe answer alone: it returns only   *)
(* when that answer is SUCCEEDED, and raises AipError only when that       *)
(* answer is another terminal state, whatever the earlier answers were.    *)
InWait(n) == pc[n] \in {"describe", "loop", "open_output", "load"}

WaitEnded(n) ==
    /\ pc[n] = "idle"
    /\ trace[n] # <<>>
    /\ trace[n][1].op = "describe"

LastDescribe(n) ==
    trace[n][CHOOSE i \in DOMAIN trace[n] :
                /\ trace[n][i].op = "describe"
                /\ \A j \in DOMAIN trace[n] :
                      trace[n][j].op = "describe" => j <= i]

C20_WaitEndsByLastAnswer ==
    /\ \A n \in Names : InWait(n) ~> WaitEnded(n)
    /\ [](\A n \in Names :
            WaitEnded(n) =>
               /\ outcome[n].kind \in {"returned", "raised"}
               /\ outcome[n].kind = "returned" =>
                     /\ Answers(LastDescribe(n))
                     /\ LastDescribe(n).res[2].state = "SUCCEEDED"
                     /\ store[output_uri(task[n])] = Pickled(outcome[n].value)
               /\ (outcome[n].kind = "raised"
                      /\ outcome[n].exc.type = "AipError") =>
                     /\ Answers(LastDescribe(n))
                     /\ LastDescribe(n).res[2].state \in {"FAILED", "CANCELLED"}
               /\ (Answers(LastDescribe(n))
                      /\ LastDescribe(n).res[2].state \in {"FAILED", "CANCELLED"}) =>
                     /\ outcome[n].kind = "raised"
                     /\ outcome[n].exc.type = "AipError")

C20_Witness ==
    \E n \in Names :
        /\ WaitEnded(n)
        /\ Ops(trace[n]) =
              <<"describe", "sleep", "describe", "sleep", "describe",
                "open_rb", "load">>
        /\ trace[n][1].res[2].state = "QUEUED"
        /\ trace[n][5].res[2].state = "SUCCEEDED"
        /\ outcome[n].kind = "returned"

(* C11: two lifecycles with distinct names under one Config do not         *)
(* interfere.  Their jobId, job name, inputsUri and outputUri differ; a    *)
(* step of one task leaves the other's position, locals, calls, outcome,   *)
(* staged input, output object and created jobs as they were; an output    *)
(* object appears only for a job that was created; and how a call ended    *)
(* is what its own calls and its own output object give when the task      *)
(* runs alone.                                                             *)
Disjoint(n, m) ==
    /\ job_id(task[n]) # job_id(task[m])
    /\ JobName(task[n]) # JobName(task[m])
    /\ {inputs_uri(task[n]), output_uri(task[n])}
          \cap {inputs_uri(task[m]), output_uri(task[m])} = {}

(* The end of a finished call, told from the task's own calls and objects *)
EndsAsAlone(n) ==
    LET last == LastEvent(n)
    IN  IF Raises(last)
        THEN outcome[n].kind = "raised" /\ outcome[n].exc = last.res[2]
        ELSE IF last.op = "describe"
        THEN /\ outcome[n].kind = "raised"
             /\ outcome[n].exc =
                   AipError(job_id(task[n]) \o ": " \o str(ErrorOf(last.res[2])))
        ELSE IF last.op = "load"
        THEN /\ outcome[n].kind = "returned"
             /\ store[output_uri(task[n])] = Pickled(outcome[n].value)
        ELSE /\ last.op = "execute_create"
             /\ outcome[n].kind = "returned"
             /\ outcome[n].value = None
             /\ store[inputs_uri(task[n])] = Pickled(task[n])
             /\ CreatedCount(n) = 1

OwnCalls(n) ==
    \A i \in DOMAIN trace[n] :
        /\ trace[n][i].op \in {"open_wb", "dump"} =>
              trace[n][i].arg = inputs_uri(task[n])
        /\ trace[n][i].op \in {"open_rb", "load"} =>
              trace[n][i].arg = output_uri(task[n])
        /\ trace[n][i].op = "describe" => trace[n][i].arg = JobName(task[n])

LeavesOthersAlone(n) ==
    \A m \in Names \ {n} :
        Constructed(m) =>
            /\ pc'[m] = pc[m]
            /\ task'[m] = task[m]
            /\ calls'[m] = calls[m]
            /\ Len(trace'[m]) = Len(trace[m])
            /\ outcome'[m] = outcome[m]
            /\ spec'[m] = spec[m]
            /\ response'[m] = response[m]
            /\ slept'[m] = slept[m]
            /\ store'[inputs_uri(task[m])] = store[inputs_uri(task[m])]
            /\ store'[output_uri(task[m])] = store[output_uri(task[m])]
            /\ CreatedCount(m)' = CreatedCount(m)

C11_LifecyclesDoNotInterfere ==
    /\ [](\A n \in Names :
            Constructed(n) =>
               /\ \A m \in Names \ {n} : Constructed(m) => Disjoint(n, m)
               /\ OwnCalls(n)
               /\ store[output_uri(task[n])] # Absent => Created(n)
               /\ CreatedCount(n) <= 1
               /\ (pc[n] = "idle" /\ trace[n] # <<>>) => EndsAsAlone(n))
    /\ [][\A n \in Names :
            (Constructed(n) /\ pc'[n] # pc[n]) => LeavesOthersAlone(n)]_vars

C11_Witness ==
    /\ pc["a"] = "idle"
    /\ pc["b"] = "idle"
    /\ calls["a"] = 2
    /\ calls["b"] = 2
    /\ Len(createLog) = 2
    /\ createLog[1].body.jobId = "u1_b"
    /\ createLog[2].body.jobId = "u1_a"
    /\ outcome["a"].kind = "returned"
    /\ LastEvent("a").op = "load"
    /\ outcome["b"].kind = "raised"
    /\ outcome["b"].exc = AipError("u1_b: oom")

(* C15: two cache entries are equal exactly when their metadata URLs are   *)
(* equal, one is less than the other exactly when its metadata URL is the  *)
(* smaller string, and equal entries hash alike, whatever their tier,      *)
(* artifact URL or descriptor; sorted entries are the same entries in      *)
(* ascending order of metadata URL.                                        *)
UrlsAscending == <<URL_a, URL_ab, URL_b>>      \* "a" < "ab" < "b"

Rank(url) == CHOOSE k \in DOMAIN UrlsAscending : UrlsAscending[k] = url

Occurrences(seq, x) == Cardinality({k \in DOMAIN seq : seq[k] = x})

C15_EntriesCompareByMetadataUrl ==
    /\ \A i, j \in DOMAIN entries :
          LET a == entries[i]
              b == entries[j]
          IN  /\ __eq__(a, b) <=> (a.metadata_url = b.metadata_url)
              /\ __lt__(a, b) <=> (Rank(a.metadata_url) < Rank(b.metadata_url))
              /\ __eq__(a, b) => __hash__(a) = __hash__(b)
    /\ ordered # None =>
          /\ Len(ordered[1]) = Len(entries)
          /\ \A k \in DOMAIN entries :
                Occurrences(ordered[1], entries[k]) = Occurrences(entries, entries[k])
          /\ \A i, j \in DOMAIN ordered[1] :
                i < j => Rank(ordered[1][i].metadata_url)
                            <= Rank(ordered[1][j].metadata_url)

C15_Witness ==
    /\ ordered # None
    /\ Len(entries) = 3
    /\ entries[1].metadata_url = URL_b
    /\ entries[1].tier = "local"
    /\ entries[2].metadata_url = URL_a
    /\ entries[3].metadata_url = URL_a
    /\ entries[3].tier = "cloud"
    /\ entries[2].tier # entries[3].tier
    /\ entries[2].artifact_url # entries[3].artifact_url
    /\ entries[2]._descriptor # entries[3]._descriptor
    /\ __eq__(entries[2], entries[3])
    /\ ordered[1] = <<entries[2], entries[3], entries[1]>>

(* C19: get_entries calls deriver.get_ready before any inventory is listed *)
(* and lists nothing when it fails; only the stores that are present are   *)
(* listed, once each and local before cloud, and no absent store is        *)
(* touched; the entries received are, in order, one per item of the local  *)
(* inventory and then one per item of the cloud inventory.                 *)
ItemsOf(store_) == IF store_ = None THEN <<>> ELSE store_[1].inventory.items

ExpectedEntries ==
    LET items == ItemsOf(persistent_cache._local_store)
                    \o ItemsOf(persistent_cache._cloud_store)
    IN  [k \in DOMAIN items |->
            [_comparison_key |-> items[k].abs_metadata_url,
             tier            |-> IF k <= Len(ItemsOf(persistent_cache._local_store))
                                 THEN "local" ELSE "cloud",
             artifact_url    |-> items[k].abs_artifact_url,
             metadata_url    |-> items[k].abs_metadata_url,
             _descriptor     |-> items[k].descriptor,
             _inventory      |-> items[k].inventory]]

Listed == SelectSeq(cacheTrace, LAMBDA e : e.op = "list_items")

PresentTiers ==
    SelectSeq(<<"local", "cloud">>,
              LAMBDA t : IF t = "local"
                         THEN persistent_cache._local_store # None
                         ELSE persistent_cache._cloud_store # None)

C19_ReadyThenPresentStoresInOrder ==
    /\ generator.pc \in {"new", "idle"} => cacheTrace = <<>> /\ entries = <<>>
    /\ cacheTrace # <<>> =>
          /\ cacheTrace[1].op = "get_ready"
          /\ \A k \in 2..Len(cacheTrace) : cacheTrace[k].op = "list_items"
          /\ cacheTrace[1].res = "raised" =>
                Len(cacheTrace) = 1 /\ entries = <<>> /\ generator.pc = "failed"
    /\ generator.pc # "raised"
    /\ Len(Listed) <= Len(PresentTiers)
    /\ \A k \in DOMAIN Listed : Listed[k].arg = PresentTiers[k]
    /\ Len(entries) <= Len(ExpectedEntries)
    /\ \A k \in DOMAIN entries :
          /\ entries[k] = ExpectedEntries[k]
          /\ \E j \in DOMAIN Listed : Listed[j].arg = entries[k].tier
    /\ generator.pc = "exhausted" =>
          /\ entries = ExpectedEntries
          /\ Len(Listed) = Len(PresentTiers)

C19_Witness ==
    /\ generator.pc = "exhausted"
    /\ persistent_cache._local_store = None
    /\ persistent_cache._cloud_store # None
    /\ Len(entries) = 2
    /\ entries[1].tier = "cloud"
    /\ entries[2].tier = "cloud"
    /\ Len(cacheTrace) = 2
    /\ cacheTrace[1].op = "get_ready"
    /\ cacheTrace[2].op = "list_items"
    /\ cacheTrace[2].arg = "cloud"

====
